---- MODULE Spec2Model ----
(***************************************************************************)
(* Model of cybersecurity/ip_extract.py: parse_ranges (candidate strings   *)
(* -> set of integer intervals -> sorted list -> optional merge),          *)
(* merge_ranges (the linear merge sweep) and the rendering done by main.   *)
(*                                                                         *)
(* Addresses are NumOctets octets of OctetBits bits each.  The program has *)
(* OctetBits = 8 (32-bit addresses); the model keeps the octet structure   *)
(* and all the arithmetic but scales the octet width, because TLC integers *)
(* are narrower than 2^32.  Every quantity that is 255, 32 or 2^32 - 1 in  *)
(* the program is OctetMax, AddrBits or ALL_ONES here.                     *)
(*                                                                         *)
(* A regex match is modelled by the numeric values of its digit groups;    *)
(* the spelling of a group (leading zeros) is not modelled.                *)
(***************************************************************************)
EXTENDS Integers, Sequences, FiniteSets, TLC

\* ---------------------------------------------------------------- bounds
OctetBits == 2     \* width of one octet (8 in the program)
MaxMatches == 3    \* longest list of regex matches explored
MaxLen == 3        \* longest list handed directly to merge_ranges
MaxPoint == 4      \* largest endpoint of a list handed directly to merge_ranges

\* ------------------------------------------------------ program constants
NumOctets == 4     \* (?:\d{1,3}\.){3}\d{1,3} : four dotted groups

OctetMax == 2^OctetBits - 1            \* 255
AddrBits == NumOctets * OctetBits      \* 32
ALL_ONES == 2^AddrBits - 1             \* 2^32 - 1, IPv4Address._ALL_ONES
OctetLexMax == OctetMax + 1            \* a digit group may exceed OctetMax (\d{1,3} reaches 999)
PrefixLexMax == AddrBits + 1           \* a prefix group may exceed AddrBits (\d{1,2} reaches 99)

NoPrefix == <<>>                       \* the match has no "/prefix" group

\* ------------------------------------------------------- bit arithmetic
RECURSIVE BitAnd(_, _, _)
BitAnd(x, y, n) ==
    IF n = 0 THEN 0
    ELSE (x % 2) * (y % 2) + 2 * BitAnd(x \div 2, y \div 2, n - 1)

RECURSIVE BitOr(_, _, _)
BitOr(x, y, n) ==
    IF n = 0 THEN 0
    ELSE (IF (x % 2) + (y % 2) > 0 THEN 1 ELSE 0) + 2 * BitOr(x \div 2, y \div 2, n - 1)

RECURSIVE BitXor(_, _, _)
BitXor(x, y, n) ==
    IF n = 0 THEN 0
    ELSE (((x % 2) + (y % 2)) % 2) + 2 * BitXor(x \div 2, y \div 2, n - 1)

ShiftRight(x, n) == x \div (2^n)

\* ------------------------------------------------------------ candidates
\* One regex match: its four digit groups (as numbers) and its optional
\* prefix group (the empty tuple when the match has no "/").
Cand(o, p) == [octets |-> o, prefix |-> p]

\* ------------------------------------------------------- ipaddress parsing
\* Mutant: the octet range check is missing.
IPv4AddressRaises_NoCheck(o) == FALSE

\* IPv4Address(str) raises when an octet exceeds 255.
IPv4AddressRaises(o) == \E i \in 1..NumOctets : o[i] > OctetMax

\* int(IPv4Address(str)): big-endian value of the octets.
RECURSIVE OctetsToInt(_, _)
OctetsToInt(o, n) ==
    IF n = 0 THEN 0 ELSE (OctetsToInt(o, n - 1) * (OctetMax + 1)) + o[n]

IPv4Address(o) == OctetsToInt(o, NumOctets)

\* IPv4Network._make_netmask raises when the prefix length exceeds 32.
PrefixRaises(p) == p > AddrBits

Netmask(p) == BitXor(ALL_ONES, ShiftRight(ALL_ONES, p), AddrBits)
Hostmask(p) == BitXor(Netmask(p), ALL_ONES, AddrBits)

\* Mutant: the host bits are kept (the address is taken as the network address).
NetworkAddress_Unmasked(a, p) == a

\* net.network_address with strict=False: host bits are masked off.
NetworkAddress(a, p) == BitAnd(a, Netmask(p), AddrBits)

\* Mutant: the end is one past the block (start + size instead of start + size - 1).
BroadcastAddress_OnePast(a, p) == NetworkAddress(a, p) + 2^(AddrBits - p)

\* net.broadcast_address
BroadcastAddress(a, p) == BitOr(NetworkAddress(a, p), Hostmask(p), AddrBits)

\* Does the try block raise ValueError on match m ?
ParseRaises(m) ==
    IF m.prefix # NoPrefix
    THEN IPv4AddressRaises(m.octets) \/ PrefixRaises(m.prefix[1])
    ELSE IPv4AddressRaises(m.octets)

\* (start, end) computed by the try block on a match that does not raise.
ParseCandidate(m) ==
    IF m.prefix # NoPrefix
    THEN <<NetworkAddress(IPv4Address(m.octets), m.prefix[1]),
           BroadcastAddress(IPv4Address(m.octets), m.prefix[1])>>
    ELSE <<IPv4Address(m.octets), IPv4Address(m.octets)>>

\* ------------------------------------------------------------- sorting
\* Mutant: ties on start are broken by end descending.
KeyLess_EndDescending(a, b) == a[1] < b[1] \/ (a[1] = b[1] /\ a[2] > b[2])

\* key=lambda t: (t[0], t[1])
KeyLess(a, b) == a[1] < b[1] \/ (a[1] = b[1] /\ a[2] < b[2])

\* sorted(ranges, key=...) on a set: ascending, smallest key first.
RECURSIVE Sorted(_)
Sorted(S) ==
    IF S = {} THEN <<>>
    ELSE LET m == CHOOSE x \in S : \A y \in S \ {x} : KeyLess(x, y)
         IN  <<m>> \o Sorted(S \ {m})

\* ------------------------------------------------------------- merging
Max(a, b) == IF a >= b THEN a ELSE b

\* Mutant: only overlapping entries are folded (start <= last_end).
MergeIter_OverlapOnly(acc, r) ==
    IF r[1] <= acc[Len(acc)][2]
    THEN [acc EXCEPT ![Len(acc)] = <<acc[Len(acc)][1], Max(acc[Len(acc)][2], r[2])>>]
    ELSE Append(acc, r)

\* Mutant: a folded entry leaves the last entry as it was (the max is forgotten).
MergeIter_KeepLast(acc, r) ==
    IF r[1] <= acc[Len(acc)][2] + 1
    THEN acc
    ELSE Append(acc, r)

\* Mutant: a folded entry overwrites the end (end instead of max(last_end, end)).
MergeIter_NoMax(acc, r) ==
    IF r[1] <= acc[Len(acc)][2] + 1
    THEN [acc EXCEPT ![Len(acc)] = <<acc[Len(acc)][1], r[2]>>]
    ELSE Append(acc, r)

\* Mutant: entries one address apart are folded too (start <= last_end + 2).
MergeIter_Gap2(acc, r) ==
    IF r[1] <= acc[Len(acc)][2] + 2
    THEN [acc EXCEPT ![Len(acc)] = <<acc[Len(acc)][1], Max(acc[Len(acc)][2], r[2])>>]
    ELSE Append(acc, r)

\* Mutant: the fold replaces the whole accumulator by the folded entry.
MergeIter_DropEarlier(acc, r) ==
    IF r[1] <= acc[Len(acc)][2] + 1
    THEN << <<acc[Len(acc)][1], Max(acc[Len(acc)][2], r[2])>> >>
    ELSE Append(acc, r)

\* One iteration of the for loop of merge_ranges on the entry r = (start, end).
MergeIter(acc, r) ==
    LET last_start == acc[Len(acc)][1]
        last_end   == acc[Len(acc)][2]
    IN  IF r[1] <= last_end + 1
        THEN [acc EXCEPT ![Len(acc)] = <<last_start, Max(last_end, r[2])>>]
        ELSE Append(acc, r)

\* ----------------------------------------------------------- rendering
\* str(ipaddress.ip_address(v)): dotted octets, most significant first.
IntToOctets(v) ==
    [i \in 1..NumOctets |-> (v \div ((OctetMax + 1)^(NumOctets - i))) % (OctetMax + 1)]

\* format_range(start, end): the two rendered bounds of "<start>-<end>".
format_range(start, end) == <<IntToOctets(start), IntToOctets(end)>>

\* ================================================================ state
VARIABLES
    pc,            \* control point
    caller,        \* "main" (the whole pipeline) or "direct" (merge_ranges called on its own)
    matches,       \* parse_ranges: IP_CIDR_RE.findall(text)
    merge,         \* parse_ranges: the merge argument
    mi,            \* parse_ranges: position of the for loop in matches
    ranges,        \* parse_ranges: the set of (start, end) pairs
    sorted_ranges, \* parse_ranges: sorted(ranges, key=...)
    mranges,       \* merge_ranges: its argument, the list it was given
    given,         \* merge_ranges: copy of the argument as it was at the call
    merged,        \* merge_ranges: the accumulator
    k,             \* merge_ranges: position of the for loop in its argument
    evals,         \* merge_ranges: every (start, last_end) whose test was evaluated
    result,        \* what parse_ranges / merge_ranges returned
    lines          \* main: the formatted ranges

vars == <<pc, caller, matches, merge, mi, ranges, sorted_ranges, mranges, given,
          merged, k, evals, result, lines>>

\* ----------------------------------------------------------------- inputs
\* Matches the text may contain: single addresses, blocks with and without
\* host bits set, two contiguous blocks one octet wide, the all-ones address,
\* the whole address space, and the two kinds of match the ipaddress module
\* rejects.
Pool ==
    { Cand(<<0, 0, 0, 0>>, NoPrefix),
      Cand(<<0, 0, 0, 1>>, NoPrefix),
      Cand(<<0, 0, 1, 0>>, NoPrefix),
      Cand(<<0, 1, 0, 1>>, NoPrefix),
      Cand(<<OctetMax, OctetMax, OctetMax, OctetMax>>, NoPrefix),
      Cand(<<0, 0, 0, 0>>, <<AddrBits - 1>>),
      Cand(<<0, 0, 0, 1>>, <<AddrBits - 1>>),
      Cand(<<0, 0, 0, 0>>, <<0>>),
      Cand(<<0, 0, 0, 0>>, <<AddrBits - OctetBits>>),
      Cand(<<0, 0, 1, 0>>, <<AddrBits - OctetBits>>),
      Cand(<<OctetLexMax, OctetMax, OctetMax, OctetMax>>, NoPrefix),
      Cand(<<0, 0, 0, 0>>, <<PrefixLexMax>>) }

SeqsUpTo(S, n) == UNION { [1..j -> S] : j \in 0..n }

\* Every match of the token shape, for the single-match specification.
AllCandidates ==
    { Cand(o, p) : o \in [1..NumOctets -> 0..OctetLexMax],
                   p \in {NoPrefix} \cup { <<q>> : q \in 0..PrefixLexMax } }

\* Well-formed intervals with small endpoints, for direct calls of merge_ranges.
Intervals == { r \in (0..MaxPoint) \X (0..MaxPoint) : r[1] <= r[2] }

StartSorted(q) == \A i \in 1..(Len(q) - 1) : q[i][1] <= q[i + 1][1]

\* ------------------------------------------------------------------ Init
InitLocals ==
    /\ mi = 1
    /\ ranges = {}
    /\ sorted_ranges = <<>>
    /\ merged = <<>>
    /\ k = 1
    /\ evals = {}
    /\ result = <<>>
    /\ lines = <<>>

\* main: text read, parse_ranges(text, merge=merge) about to run its loop.
Init ==
    /\ pc = "parse"
    /\ caller = "main"
    /\ matches \in SeqsUpTo(Pool, MaxMatches)
    /\ merge \in BOOLEAN
    /\ mranges = <<>>
    /\ given = <<>>
    /\ InitLocals

\* ---------------------------------------------------------------- actions
\* Mutant: the ValueError is not caught and ends the run.
ParseStep_Abort ==
    /\ pc = "parse"
    /\ mi <= Len(matches)
    /\ IF ParseRaises(matches[mi])
       THEN /\ pc' = "raised"
            /\ UNCHANGED <<ranges, mi>>
       ELSE /\ ranges' = ranges \cup {ParseCandidate(matches[mi])}
            /\ mi' = mi + 1
            /\ UNCHANGED pc
    /\ UNCHANGED <<caller, matches, merge, sorted_ranges, mranges, given,
                   merged, k, evals, result, lines>>

\* parse_ranges, lines 16-28: one iteration of `for m in matches`.
ParseStep ==
    /\ pc = "parse"
    /\ mi <= Len(matches)
    /\ IF ParseRaises(matches[mi])
       THEN ranges' = ranges                                   \* except ValueError: continue
       ELSE ranges' = ranges \cup {ParseCandidate(matches[mi])} \* ranges.add((start, end))
    /\ mi' = mi + 1
    /\ UNCHANGED <<pc, caller, matches, merge, sorted_ranges, mranges, given,
                   merged, k, evals, result, lines>>

\* parse_ranges, lines 31-32: sort, then return or call merge_ranges.
SortRanges ==
    /\ pc = "parse"
    /\ mi > Len(matches)
    /\ sorted_ranges' = Sorted(ranges)
    /\ IF merge
       THEN /\ mranges' = sorted_ranges'
            /\ given' = sorted_ranges'
            /\ pc' = "merge_ranges"
            /\ UNCHANGED result
       ELSE /\ result' = sorted_ranges'
            /\ pc' = "format"
            /\ UNCHANGED <<mranges, given>>
    /\ UNCHANGED <<caller, matches, merge, mi, ranges, merged, k, evals, lines>>

\* Where merge_ranges returns to.
ReturnPc == IF caller = "main" THEN "format" ELSE "done"

\* merge_ranges, lines 38-40: empty input returns [], else merged = [ranges[0]].
MergeInit ==
    /\ pc = "merge_ranges"
    /\ IF mranges = <<>>
       THEN /\ result' = <<>>
            /\ pc' = ReturnPc
            /\ UNCHANGED <<merged, k>>
       ELSE /\ merged' = <<mranges[1]>>
            /\ k' = 2
            /\ pc' = "merge_loop"
            /\ UNCHANGED result
    /\ UNCHANGED <<caller, matches, merge, mi, ranges, sorted_ranges, mranges, given,
                   evals, lines>>

\* merge_ranges, lines 41-46: one iteration of `for start, end in ranges[1:]`.
MergeStep ==
    /\ pc = "merge_loop"
    /\ k <= Len(mranges)
    /\ merged' = MergeIter(merged, mranges[k])
    /\ evals' = evals \cup {[start |-> mranges[k][1], last_end |-> merged[Len(merged)][2]]}
    /\ k' = k + 1
    /\ UNCHANGED <<pc, caller, matches, merge, mi, ranges, sorted_ranges, mranges, given,
                   result, lines>>

\* merge_ranges, line 47: return merged.
MergeReturn ==
    /\ pc = "merge_loop"
    /\ k > Len(mranges)
    /\ result' = merged
    /\ pc' = ReturnPc
    /\ UNCHANGED <<caller, matches, merge, mi, ranges, sorted_ranges, mranges, given,
                   merged, k, evals, lines>>

\* main, lines 81-89: format every range and write the output.
Format ==
    /\ pc = "format"
    /\ lines' = [i \in 1..Len(result) |-> format_range(result[i][1], result[i][2])]
    /\ pc' = "done"
    /\ UNCHANGED <<caller, matches, merge, mi, ranges, sorted_ranges, mranges, given,
                   merged, k, evals, result>>

Next ==
    \/ ParseStep
    \/ SortRanges
    \/ MergeInit
    \/ MergeStep
    \/ MergeReturn
    \/ Format

Spec == Init /\ [][Next]_vars

\* merge_ranges called on its own with a list sorted by start.
InitMerge ==
    /\ pc = "merge_ranges"
    /\ caller = "direct"
    /\ matches = <<>>
    /\ merge = TRUE
    /\ mranges \in { q \in SeqsUpTo(Intervals, MaxLen) : StartSorted(q) }
    /\ given = mranges
    /\ InitLocals

NextMerge ==
    \/ MergeInit
    \/ MergeStep
    \/ MergeReturn

SpecMerge == InitMerge /\ [][NextMerge]_vars

\* The program is sequential and never blocks: an enabled step is taken.
FairSpecMerge == SpecMerge /\ WF_vars(NextMerge)

\* main on a text with a single match of any shape, without --merge.
InitSingle ==
    /\ pc = "parse"
    /\ caller = "main"
    /\ matches \in { <<c>> : c \in AllCandidates }
    /\ merge = FALSE
    /\ mranges = <<>>
    /\ given = <<>>
    /\ InitLocals

NextSingle ==
    \/ ParseStep
    \/ SortRanges
    \/ Format

SpecSingle == InitSingle /\ [][NextSingle]_vars

\* ============================================================ properties
Returned == pc \in {"format", "done"}          \* result holds the returned list
Base == 2^OctetBits

Elems(q) == { q[i] : i \in 1..Len(q) }
Cover(q) == UNION { q[i][1]..q[i][2] : i \in 1..Len(q) }
CoverOfSet(S) == UNION { r[1]..r[2] : r \in S }
NoAdjacentOrOverlap(q) == \A i \in 1..(Len(q) - 1) : q[i + 1][1] > q[i][2] + 1
AscendingByStart(q) == \A i \in 1..(Len(q) - 1) : q[i][1] < q[i + 1][1]
CanonLE(a, b) == a[1] < b[1] \/ (a[1] = b[1] /\ a[2] <= b[2])
Canonical(q) == \A i \in 1..(Len(q) - 1) : CanonLE(q[i], q[i + 1])
StrictlyCanonical(q) == \A i \in 1..(Len(q) - 1) : q[i] # q[i + 1] /\ CanonLE(q[i], q[i + 1])
WellFormed(r) == 0 <= r[1] /\ r[1] <= r[2] /\ r[2] <= 2^(NumOctets * OctetBits) - 1

\* A match the ipaddress module rejects: an octet above 255 or a prefix above 32.
Invalid(m) ==
    \/ \E i \in 1..NumOctets : m.octets[i] > Base - 1
    \/ (m.prefix # <<>> /\ m.prefix[1] > NumOctets * OctetBits)
\* Address value of a match's digit groups.
ValueOf(m) ==
    m.octets[1] * Base^3 + m.octets[2] * Base^2 + m.octets[3] * Base + m.octets[4]
\* Size of the block of prefix length p.
BlockSize(p) == 2^(NumOctets * OctetBits - p)
\* The interval a valid match denotes, by arithmetic on its value.
Denotes(m) ==
    IF m.prefix = <<>>
    THEN <<ValueOf(m), ValueOf(m)>>
    ELSE <<ValueOf(m) - (ValueOf(m) % BlockSize(m.prefix[1])),
           ValueOf(m) - (ValueOf(m) % BlockSize(m.prefix[1])) + BlockSize(m.prefix[1]) - 1>>
ValidIntervals(ms) == { Denotes(ms[j]) : j \in { i \in 1..Len(ms) : ~Invalid(ms[i]) } }

\* C1: parse_ranges with merge=True returns a list in which no two consecutive
\* intervals overlap or are adjacent: R[i+1].start > R[i].end + 1, hence the
\* list is strictly ascending by start.
C1_NoAdjacencyOrOverlap ==
    (caller = "main" /\ merge /\ Returned) =>
        NoAdjacentOrOverlap(result) /\ AscendingByStart(result)

C1_Witness ==
    /\ caller = "main" /\ merge /\ pc = "done"
    /\ Len(result) >= 2
    /\ Len(result) < Len(sorted_ranges)

\* C2: union preservation: for a canonically sorted, duplicate-free list of
\* well-formed intervals, merge_ranges returns a list covering exactly the
\* integers the input covers.
C2_UnionPreserved ==
    (caller = "direct" /\ pc = "done" /\ StrictlyCanonical(given)) =>
        Cover(result) = CoverOfSet(Elems(given))

C2_Witness ==
    /\ caller = "direct" /\ pc = "done" /\ StrictlyCanonical(given)
    /\ Len(given) = 3 /\ Len(result) = 2
    /\ \E i \in 1..2 : given[i + 1][1] <= given[i][2] /\ given[i + 1][2] > given[i][2]

\* C3: idempotence: merge_ranges applied to a canonically ordered list that
\* already satisfies the merged-set invariant returns that list, element for
\* element.
C3_Idempotent ==
    (caller = "direct" /\ pc = "done" /\ Canonical(given) /\ NoAdjacentOrOverlap(given)) =>
        result = given

C3_Witness ==
    /\ caller = "direct" /\ pc = "done"
    /\ Canonical(given) /\ NoAdjacentOrOverlap(given)
    /\ Len(given) = 3
    /\ given[2][1] = given[1][2] + 2

\* C4: parse_ranges with merge=False returns the distinct intervals of the
\* valid matches, each once, strictly ascending by (start, end), overlapping
\* ones kept separate; no matches give the empty list.
C4_SortedDistinct ==
    (caller = "main" /\ ~merge /\ Returned) =>
        /\ StrictlyCanonical(result)
        /\ Elems(result) = ValidIntervals(matches)
        /\ Len(result) = Cardinality(ValidIntervals(matches))
        /\ (matches = <<>> => result = <<>>)

C4_Witness ==
    /\ caller = "main" /\ ~merge /\ pc = "done"
    /\ Len(matches) = 3 /\ Len(result) = 2
    /\ matches[1] # matches[3] /\ ~Invalid(matches[1]) /\ ~Invalid(matches[3])
    /\ Denotes(matches[1]) = Denotes(matches[3])
    /\ result[2][1] <= result[1][2]

\* C5: an invalid match is dropped and nothing aborts: the run never ends in a
\* raised error, after every iteration the range set is the set of intervals
\* of the valid matches consumed so far, every match is consumed before the
\* return, and the returned list is built from the valid matches alone (the
\* empty list when every match is invalid).
C5_InvalidDropped ==
    caller = "main" =>
        /\ pc \in {"parse", "merge_ranges", "merge_loop", "format", "done"}
        /\ ranges = ValidIntervals(SubSeq(matches, 1, mi - 1))
        /\ (pc # "parse" => mi = Len(matches) + 1)
        /\ (Returned => Cover(result) = CoverOfSet(ValidIntervals(matches)))
        /\ (Returned /\ (\A j \in 1..Len(matches) : Invalid(matches[j])) => result = <<>>)

C5_Witness ==
    /\ caller = "main" /\ pc = "done"
    /\ Len(matches) = 3
    /\ Invalid(matches[1]) /\ ~Invalid(matches[2]) /\ Invalid(matches[3])
    /\ matches[1] # matches[3]
    /\ Len(result) = 1

\* C6: a match a/p with valid octets and p in 0..32 is accepted whatever its
\* host bits, and yields start = a - a mod 2^(32-p) (a multiple of 2^(32-p)),
\* end = start + 2^(32-p) - 1, with start <= a <= end; a match without prefix
\* yields start = end = a.
C6_CidrExpansion ==
    (pc = "parse" /\ mi = 2 /\ ~Invalid(matches[1])) =>
        /\ ranges = {Denotes(matches[1])}
        /\ \A r \in ranges :
              /\ r[1] <= ValueOf(matches[1]) /\ ValueOf(matches[1]) <= r[2]
              /\ matches[1].prefix # <<>> =>
                    /\ r[1] % BlockSize(matches[1].prefix[1]) = 0
                    /\ r[2] = r[1] + BlockSize(matches[1].prefix[1]) - 1
              /\ matches[1].prefix = <<>> => r = <<ValueOf(matches[1]), ValueOf(matches[1])>>

C6_Witness ==
    /\ pc = "parse" /\ mi = 2 /\ ~Invalid(matches[1])
    /\ matches[1].prefix # <<>>
    /\ matches[1].prefix[1] \in 1..(NumOctets * OctetBits - 1)
    /\ ValueOf(matches[1]) % BlockSize(matches[1].prefix[1]) # 0
    /\ ranges # {}

\* C7 as stated: every time the adjacency test is evaluated, last_end + 1 is
\* at most 2^32 - 1.
C7_Original_NoOverflow ==
    \A ev \in evals : ev.last_end + 1 <= 2^(NumOctets * OctetBits) - 1

\* C7 amended: every time the adjacency test is evaluated, last_end + 1 is at
\* most 2^32; it is 2^32 only when the last entry ends at the all-ones
\* address, and then the next start is positive, so the test is true in
\* unbounded integers and false modulo 2^32; for every smaller last_end the
\* two agree.
C7_OverflowOnlyAtAllOnes ==
    \A ev \in evals :
        /\ ev.last_end + 1 <= 2^(NumOctets * OctetBits)
        /\ ev.last_end < 2^(NumOctets * OctetBits) - 1 =>
              ((ev.start <= (ev.last_end + 1) % 2^(NumOctets * OctetBits))
                   <=> (ev.start <= ev.last_end + 1))
        /\ ev.last_end = 2^(NumOctets * OctetBits) - 1 =>
              /\ ev.start <= ev.last_end + 1
              /\ ~(ev.start <= (ev.last_end + 1) % 2^(NumOctets * OctetBits))

C7_Witness ==
    /\ caller = "main" /\ pc = "done"
    /\ \E ev \in evals : ev.last_end = 2^(NumOctets * OctetBits) - 1
    /\ \E ev \in evals : ev.last_end < 2^(NumOctets * OctetBits) - 1

\* C8: every interval parse_ranges returns, merged or not, has
\* 0 <= start <= end <= 2^32 - 1, so main passes only such intervals to
\* format_range.
C8_WellFormed ==
    (caller = "main" /\ Returned) => \A i \in 1..Len(result) : WellFormed(result[i])

C8_Witness ==
    /\ caller = "main" /\ pc = "format"
    /\ Len(result) >= 2
    /\ \E i \in 1..Len(result) : result[i][2] = 2^(NumOctets * OctetBits) - 1
    /\ \E j \in 1..Len(matches) : Invalid(matches[j])

\* C9: loop invariant of the merge scan on canonically ordered input: the
\* accumulator is non-empty, strictly ascending, without consecutive entries
\* overlapping or adjacent, covers exactly the inputs consumed so far, and its
\* last start is at most the next input's start; each step consumes the next
\* input and changes at most the last entry; the scan returns, with at most
\* as many intervals as it was given.
C9_StateInv ==
    Canonical(given) =>
        /\ pc = "merge_loop" =>
              /\ merged # <<>>
              /\ k \in 2..(Len(given) + 1)
              /\ AscendingByStart(merged)
              /\ NoAdjacentOrOverlap(merged)
              /\ Cover(merged) = Cover(SubSeq(given, 1, k - 1))
              /\ Len(merged) <= k - 1
              /\ k <= Len(given) => merged[Len(merged)][1] <= given[k][1]
        /\ pc = "done" => Len(result) <= Len(given)

C9_StepInv ==
    (Canonical(given) /\ pc = "merge_loop" /\ pc' = "merge_loop") =>
        /\ k' = k + 1
        /\ Len(merged') \in {Len(merged), Len(merged) + 1}
        /\ \A i \in 1..(Len(merged) - 1) : merged'[i] = merged[i]
        /\ Len(merged') = Len(merged) + 1 => merged'[Len(merged)] = merged[Len(merged)]

C9_LoopInvariant ==
    /\ []C9_StateInv
    /\ [][C9_StepInv]_vars
    /\ <>(pc = "done")
    /\ [](pc = "done" /\ given # <<>> => k = Len(given) + 1)

C9_Witness ==
    /\ caller = "direct" /\ pc = "merge_loop" /\ Canonical(given)
    /\ Len(given) = 3 /\ k = 3
    /\ Len(merged) = 1 /\ merged[1] # given[1]
    /\ given[3][1] > merged[1][2] + 1

\* C10: on any list of well-formed intervals sorted by start alone (equal
\* starts in any end order, duplicates allowed) merge_ranges returns a list
\* without consecutive entries overlapping or adjacent that covers exactly the
\* input, and leaves its argument as it was given.
C10_StartOrderSuffices ==
    (caller = "direct" /\ pc = "done") =>
        /\ NoAdjacentOrOverlap(result)
        /\ Cover(result) = Cover(given)
        /\ mranges = given

C10_Witness ==
    /\ caller = "direct" /\ pc = "done"
    /\ Len(given) = 3
    /\ given[1][1] = given[2][1] /\ given[1][2] > given[2][2]
    /\ given[2] = given[3]
    /\ ~Canonical(given)

====
